---- MODULE Spec2Model ----
(***************************************************************************)
(* State-machine model of cuid2-rs (src/src/lib.rs): the process-wide      *)
(* COUNTER, the callers of generate_cuid / generate / is_valid_cuid, and   *)
(* the pure helpers they are built from.                                    *)
(*                                                                         *)
(* Characters are Unicode code points (integers); strings are sequences    *)
(* of code points.  Unsigned integers wider than TLC's integers (the u64   *)
(* counter) are little-endian sequences of 16-bit limbs.                   *)
(***************************************************************************)
EXTENDS Integers, Sequences, FiniteSets, TLC

\* ------------------------------------------------------------ constants
DEFAULT_LENGTH == 24
MAX_LENGTH == 32
MIN_LENGTH == 2
\* b"abcdefghijklmnopqrstuvwxyz"
ALPHABET == [i \in 1..26 |-> 96 + i]

\* ------------------------------------------------------------ bounds
\* OS seeds handed out by OsRng to the single caller are drawn from 0..MaxSeed
MaxSeed == 1
\* the clock reads 0..MaxMillis milliseconds since the epoch
MaxMillis == 1
\* calls each concurrent caller makes
MaxCalls == 2
\* calls the single caller of SpecSeq makes
MaxSeqCalls == 2
\* largest length argument handed to generate_cuid in SpecSeq
MaxLengthArg == 34
\* validator inputs: ids of up to MaxIdLen characters, limits 0..MaxLimit
MaxIdLen == 3
MaxLimit == 4

Threads == {"t1", "t2"}
MainThread == "t1"
\* length arguments of the concurrent callers: the shortest valid length and
\* the first value outside the valid range on either side
LengthArgs == {MIN_LENGTH - 1, MIN_LENGTH, MAX_LENGTH + 1}
\* concurrent calls all read the clock within one millisecond
SameMillisecond == {0}
\* and are handed one seed value by the OS whenever it hands out any
SameSeed == {0}
\* characters the validator is probed with: 0 9 a z - A { and e-acute
CharSamples == {48, 57, 97, 122, 45, 65, 123, 233}

\* ------------------------------------------------------------ integers
\* u64 as 4 limbs of 16 bits, least significant first
LimbBase == 65536
U64Limbs == 4
U128Limbs == 8

ZeroLimbs(n) == [i \in 1..n |-> 0]
MaxLimbs(n) == [i \in 1..n |-> LimbBase - 1]
IsZero(x) == \A i \in 1..Len(x) : x[i] = 0

\* x + 1 on Len(x) limbs, wrapping to zero past the largest value
WrappingInc(x) ==
    LET carry[i \in 0..Len(x)] ==
            IF i = 0 THEN 1
            ELSE IF carry[i - 1] = 1 /\ x[i] = LimbBase - 1 THEN 1 ELSE 0
    IN  [i \in 1..Len(x) |-> (x[i] + carry[i - 1]) % LimbBase]

RECURSIVE AddSmall(_, _)
AddSmall(x, k) == IF k = 0 THEN x ELSE AddSmall(WrappingInc(x), k - 1)

\* x < y for limb sequences of one length
LimbLess(x, y) ==
    \E i \in 1..Len(x) :
        /\ x[i] < y[i]
        /\ \A j \in (i + 1)..Len(x) : x[j] = y[j]
LimbLeq(x, y) == x = y \/ LimbLess(x, y)

\* a small natural as an n-limb integer
ToLimbs(k, n) == [i \in 1..n |-> IF i = 1 THEN k % LimbBase
                                 ELSE IF i = 2 THEN k \div LimbBase ELSE 0]

DivMod10(x) ==
    LET rem[i \in 1..(Len(x) + 1)] ==
            IF i = Len(x) + 1 THEN 0
            ELSE (rem[i + 1] * LimbBase + x[i]) % 10
    IN  [quot |-> [i \in 1..Len(x) |-> (rem[i + 1] * LimbBase + x[i]) \div 10],
         rem |-> rem[1]]

\* Display of an unsigned integer: its decimal digits, no leading zeros
RECURSIVE to_string(_)
to_string(x) ==
    LET dm == DivMod10(x)
    IN  IF IsZero(dm.quot) THEN <<48 + dm.rem>>
        ELSE to_string(dm.quot) \o <<48 + dm.rem>>

\* ------------------------------------------------------------ characters
is_ascii_lowercase(c) == 97 <= c /\ c <= 122
is_ascii_digit(c) == 48 <= c /\ c <= 57

\* char::len_utf8
len_utf8(c) == IF c < 128 THEN 1 ELSE IF c < 2048 THEN 2 ELSE IF c < 65536 THEN 3 ELSE 4

\* str::len: the length in bytes, one per character plus one for each
\* further byte its UTF-8 encoding takes
str_len(s) ==
    Len(s) + Cardinality({i \in 1..Len(s) : len_utf8(s[i]) >= 2})
           + Cardinality({i \in 1..Len(s) : len_utf8(s[i]) >= 3})
           + Cardinality({i \in 1..Len(s) : len_utf8(s[i]) >= 4})

\* Option::None of a char, and the outcome of a panicking string operation:
\* neither is a character or a string of characters
None == 0 - 1
Panic == <<None>>

\* char::from_digit(num, 36)
from_digit(num) ==
    IF num < 10 THEN 48 + num
    ELSE IF num < 36 THEN 97 + (num - 10)
    ELSE None

\* ------------------------------------------------------------ externals
\* ChaCha20Rng::seed_from_u64(seed) followed by random_range(0..n) as draw
\* number i of the stream (the first is draw 0): a deterministic stream of
\* the seed, every draw inside 0..n-1
random_range(seed, i, n) == (seed * 7 + i * (2 * seed + 3) + (i * i) \div 2) % n

\* Sha3_512 over the input bytes: a deterministic digest of 64 bytes, each
\* a mix of input bytes and of the input's length
Sha3_512(bytes) ==
    LET n == Len(bytes)
    IN  [i \in 1..64 |->
            IF n = 0 THEN (i * 37) % 256
            ELSE (bytes[(i % n) + 1] * 7 + bytes[((3 * i) % n) + 1] * 13
                    + bytes[((i * i) % n) + 1] + n * i) % 256]

\* slip: hexadecimal rendered in upper case
HexDigit_Upper(n) == IF n < 10 THEN 48 + n ELSE 55 + n

HexDigit(n) == IF n < 10 THEN 48 + n ELSE 87 + n

\* hex::encode: two lowercase hexadecimal characters per byte
hex_encode(bytes) ==
    [i \in 1..(2 * Len(bytes)) |->
        IF i % 2 = 1 THEN HexDigit(bytes[(i + 1) \div 2] \div 16)
        ELSE HexDigit(bytes[i \div 2] % 16)]

\* &s[from..to] of an ASCII string: panics when the range is out of bounds
Slice(s, from, to) ==
    IF from > to \/ to > Len(s) THEN Panic
    ELSE SubSeq(s, from + 1, to)

\* ------------------------------------------------------------ helpers
\* generate_entropy after the seed is drawn: `length` base-36 characters
EntropyChars(seed, length) ==
    LET ds == [i \in 1..length |-> from_digit(random_range(seed, i - 1, 36))]
    IN  IF \E i \in 1..length : ds[i] = None THEN Panic ELSE ds

compute_hash(input, length) ==
    LET hash_str == hex_encode(Sha3_512(input))
    IN  Slice(hash_str, 0, length)

\* generate_random_letter after the seed is drawn
RandomLetter(seed) == ALPHABET[random_range(seed, 0, Len(ALPHABET)) + 1]

\* generate_fingerprint after the seed is drawn
Fingerprint(seed) ==
    LET entropy == EntropyChars(seed, MAX_LENGTH)
    IN  IF entropy = Panic THEN Panic ELSE compute_hash(entropy, MAX_LENGTH)

\* slips: one side of the range check left out
LengthInRange_NoUpper(length) == MIN_LENGTH <= length
LengthInRange_NoLower(length) == length <= MAX_LENGTH

LengthInRange(length) == MIN_LENGTH <= length /\ length <= MAX_LENGTH

\* slip: the upper limit taken as exclusive
is_valid_cuid_StrictMax(id, min_length, max_length) ==
    IF id = <<>> THEN FALSE
    ELSE /\ is_ascii_lowercase(id[1])
         /\ \A i \in 1..Len(id) : is_ascii_lowercase(id[i]) \/ is_ascii_digit(id[i])
         /\ str_len(id) >= min_length /\ str_len(id) < max_length

\* slip: is_ascii_alphanumeric in place of the lowercase tests
is_valid_cuid_Alphanumeric(id, min_length, max_length) ==
    LET alnum(c) == is_ascii_lowercase(c) \/ is_ascii_digit(c) \/ (65 <= c /\ c <= 90)
    IN  IF id = <<>> THEN FALSE
        ELSE /\ alnum(id[1]) /\ ~is_ascii_digit(id[1])
             /\ \A i \in 1..Len(id) : alnum(id[i])
             /\ str_len(id) >= min_length /\ str_len(id) <= max_length

is_valid_cuid(id, min_length, max_length) ==
    IF id = <<>> THEN FALSE
    ELSE
        LET first_char == id[1]
            starts_with_letter == is_ascii_lowercase(first_char)
            valid_format ==
                \A i \in 1..Len(id) : is_ascii_lowercase(id[i]) \/ is_ascii_digit(id[i])
            valid_length == str_len(id) >= min_length /\ str_len(id) <= max_length
        IN  starts_with_letter /\ valid_format /\ valid_length

\* ------------------------------------------------------------ state
VARIABLES
    COUNTER,        \* static COUNTER: AtomicU64
    pc,             \* where each caller's generate_cuid call stands
    length,         \* the call's argument
    first_letter, timestamp, counter_value, salt, fingerprint,  \* its locals
    result,         \* what the call returned
    accepted,       \* what is_valid_cuid said of the returned id
    calls,          \* calls made by each caller
    entry,          \* the public function the caller entered through
    fetched,        \* history: the values fetch_add returned, in order
    past_clock,     \* history: calls whose clock read succeeded
    prior_calls,    \* history: increments made before the first state
    increments,     \* history: fetch_adds made by the caller's current call
    draws,          \* history: OS seed requests made by the current call
    probe           \* one direct is_valid_cuid call: arguments and return

vars == <<COUNTER, pc, length, first_letter, timestamp, counter_value, salt,
          fingerprint, result, accepted, calls, entry, fetched, past_clock,
          prior_calls, increments, draws, probe>>

locals == <<first_letter, timestamp, counter_value, salt, fingerprint>>


NoResult == [tag |-> "None"]
Ok(id) == [tag |-> "Ok", id |-> id]
InvalidLength(len, min, max) ==
    [tag |-> "InvalidLength", len |-> len, min |-> min, max |-> max]
SystemTimeError == [tag |-> "SystemTimeError"]
RandChaChaError == [tag |-> "RandChaChaError"]

NoProbe == [called |-> FALSE, id |-> <<>>, min_length |-> 0, max_length |-> 0,
            ret |-> FALSE]

\* no call has been made yet
NoCalls ==
    /\ pc = [t \in Threads |-> "idle"]
    /\ length = [t \in Threads |-> 0]
    /\ first_letter = [t \in Threads |-> 0]
    /\ timestamp = [t \in Threads |-> <<>>]
    /\ counter_value = [t \in Threads |-> <<>>]
    /\ salt = [t \in Threads |-> <<>>]
    /\ fingerprint = [t \in Threads |-> <<>>]
    /\ result = [t \in Threads |-> NoResult]
    /\ accepted = [t \in Threads |-> FALSE]
    /\ calls = [t \in Threads |-> 0]
    /\ entry = [t \in Threads |-> "none"]
    /\ fetched = <<>>
    /\ past_clock = 0
    /\ increments = [t \in Threads |-> 0]
    /\ draws = [t \in Threads |-> 0]

\* static COUNTER: AtomicU64 = AtomicU64::new(0)
Init ==
    /\ COUNTER = ZeroLimbs(U64Limbs)
    /\ prior_calls = ZeroLimbs(U64Limbs + 1)
    /\ probe = NoProbe
    /\ NoCalls

\* the call's stack frame is dropped when it returns or unwinds
DropLocals(t) ==
    /\ first_letter' = [first_letter EXCEPT ![t] = 0]
    /\ timestamp' = [timestamp EXCEPT ![t] = <<>>]
    /\ counter_value' = [counter_value EXCEPT ![t] = <<>>]
    /\ salt' = [salt EXCEPT ![t] = <<>>]
    /\ fingerprint' = [fingerprint EXCEPT ![t] = <<>>]

Return(t, r) ==
    /\ pc' = [pc EXCEPT ![t] = "returned"]
    /\ result' = [result EXCEPT ![t] = r]
    /\ DropLocals(t)

Abort(t) ==
    /\ pc' = [pc EXCEPT ![t] = "panicked"]
    /\ DropLocals(t)
    /\ UNCHANGED result

\* slip: the counter incremented first, ahead of the letter and the clock
StageAfter_IncrementFirst(stage) ==
    CASE stage = "entry" -> "fetch_add"
      [] stage = "fetch_add" -> "random_letter"
      [] stage = "random_letter" -> "timestamp"
      [] stage = "timestamp" -> "salt"
      [] stage = "salt" -> "fingerprint"
      [] stage = "fingerprint" -> "hash"

\* the statements of generate_cuid in program order: what follows each
StageAfter(stage) ==
    CASE stage = "entry" -> "random_letter"
      [] stage = "random_letter" -> "timestamp"
      [] stage = "timestamp" -> "fetch_add"
      [] stage = "fetch_add" -> "salt"
      [] stage = "salt" -> "fingerprint"
      [] stage = "fingerprint" -> "hash"

\* slips: a load with no store; an increment by two; a store of zero
FetchAddStore_NoStore(old) == old
FetchAddStore_Twice(old) == WrappingInc(WrappingInc(old))
FetchAddStore_Reset(old) == ZeroLimbs(Len(old))

\* what fetch_add(1, SeqCst) stores: the old value plus one, wrapping
FetchAddStore(old) == WrappingInc(old)

\* generate_cuid(len) entered through `via`: the range check
Enter(t, len, via, cap) ==
    /\ pc[t] \in {"idle", "returned", "validated"}
    /\ calls[t] < cap
    /\ calls' = [calls EXCEPT ![t] = @ + 1]
    /\ entry' = [entry EXCEPT ![t] = via]
    /\ length' = [length EXCEPT ![t] = len]
    /\ accepted' = [accepted EXCEPT ![t] = FALSE]
    /\ increments' = [increments EXCEPT ![t] = 0]
    /\ draws' = [draws EXCEPT ![t] = 0]
    /\ IF ~LengthInRange(len)
       THEN Return(t, InvalidLength(len, MIN_LENGTH, MAX_LENGTH))
       ELSE /\ pc' = [pc EXCEPT ![t] = StageAfter("entry")]
            /\ result' = [result EXCEPT ![t] = NoResult]
            /\ UNCHANGED locals
    /\ UNCHANGED <<COUNTER, fetched, past_clock, prior_calls, probe>>

GenerateCuid(t, len, cap) == Enter(t, len, "generate_cuid", cap)

Generate(t, cap) == Enter(t, DEFAULT_LENGTH, "generate", cap)

\* let first_letter = generate_random_letter()?;
DrawLetter(t, Seeds) ==
    /\ pc[t] = "random_letter"
    /\ draws' = [draws EXCEPT ![t] = @ + 1]
    /\ \/ Return(t, RandChaChaError)
       \/ \E seed \in Seeds :
            /\ first_letter' = [first_letter EXCEPT ![t] = RandomLetter(seed)]
            /\ pc' = [pc EXCEPT ![t] = StageAfter("random_letter")]
            /\ UNCHANGED <<timestamp, counter_value, salt, fingerprint, result>>
    /\ UNCHANGED <<COUNTER, length, accepted, calls, entry, fetched, past_clock,
                   prior_calls, increments, probe>>

\* let timestamp = SystemTime::now().duration_since(UNIX_EPOCH)?.as_millis().to_string();
ReadClock(t, Millis) ==
    /\ pc[t] = "timestamp"
    /\ \/ /\ Return(t, SystemTimeError)
          /\ UNCHANGED past_clock
       \/ \E millis \in Millis :
            /\ timestamp' = [timestamp EXCEPT ![t] = to_string(ToLimbs(millis, U128Limbs))]
            /\ pc' = [pc EXCEPT ![t] = StageAfter("timestamp")]
            /\ past_clock' = past_clock + 1
            /\ UNCHANGED <<first_letter, counter_value, salt, fingerprint, result>>
    /\ UNCHANGED <<COUNTER, length, accepted, calls, entry, fetched, prior_calls,
                   increments, draws, probe>>

\* let counter_value = COUNTER.fetch_add(1, Ordering::SeqCst).to_string();
FetchAdd(t) ==
    /\ pc[t] = "fetch_add"
    /\ counter_value' = [counter_value EXCEPT ![t] = to_string(COUNTER)]
    /\ COUNTER' = FetchAddStore(COUNTER)
    /\ fetched' = Append(fetched, COUNTER)
    /\ increments' = [increments EXCEPT ![t] = @ + 1]
    /\ pc' = [pc EXCEPT ![t] = StageAfter("fetch_add")]
    /\ UNCHANGED <<length, first_letter, timestamp, salt, fingerprint, result,
                   accepted, calls, entry, past_clock, prior_calls, draws, probe>>

\* let salt = generate_entropy(length)?;
DrawSalt(t, Seeds) ==
    /\ pc[t] = "salt"
    /\ draws' = [draws EXCEPT ![t] = @ + 1]
    /\ \/ Return(t, RandChaChaError)
       \/ \E seed \in Seeds :
            LET s == EntropyChars(seed, length[t])
            IN  IF s = Panic THEN Abort(t)
                ELSE /\ salt' = [salt EXCEPT ![t] = s]
                     /\ pc' = [pc EXCEPT ![t] = StageAfter("salt")]
                     /\ UNCHANGED <<first_letter, timestamp, counter_value,
                                    fingerprint, result>>
    /\ UNCHANGED <<COUNTER, length, accepted, calls, entry, fetched, past_clock,
                   prior_calls, increments, probe>>

\* let fingerprint = generate_fingerprint()?;
DrawFingerprint(t, Seeds) ==
    /\ pc[t] = "fingerprint"
    /\ draws' = [draws EXCEPT ![t] = @ + 1]
    /\ \/ Return(t, RandChaChaError)
       \/ \E seed \in Seeds :
            LET f == Fingerprint(seed)
            IN  IF f = Panic THEN Abort(t)
                ELSE /\ fingerprint' = [fingerprint EXCEPT ![t] = f]
                     /\ pc' = [pc EXCEPT ![t] = StageAfter("fingerprint")]
                     /\ UNCHANGED <<first_letter, timestamp, counter_value, salt,
                                    result>>
    /\ UNCHANGED <<COUNTER, length, accepted, calls, entry, fetched, past_clock,
                   prior_calls, increments, probe>>

\* format!("{}{}{}{}", timestamp, salt, counter_value, fingerprint)
HashInput(t) == timestamp[t] \o salt[t] \o counter_value[t] \o fingerprint[t]

\* slip: the digest's own first character kept behind the letter
Assembled_WholeDigest(letter, hashed, len) == <<letter>> \o hashed

\* Ok(format!("{}{}", first_letter, &hashed[1..length]))
Assembled(letter, hashed, len) ==
    LET rest == Slice(hashed, 1, len)
    IN  IF rest = Panic THEN Panic ELSE <<letter>> \o rest

\* hash_input, compute_hash and the final format!
Assemble(t) ==
    /\ pc[t] = "hash"
    /\ LET hashed == compute_hash(HashInput(t), length[t])
           id == IF hashed = Panic THEN Panic
                 ELSE Assembled(first_letter[t], hashed, length[t])
       IN  IF id = Panic THEN Abort(t) ELSE Return(t, Ok(id))
    /\ UNCHANGED <<COUNTER, length, accepted, calls, entry, fetched, past_clock,
                   prior_calls, increments, draws, probe>>

\* assert!(is_valid_cuid(&id, MIN_LENGTH, MAX_LENGTH)) on a returned id
CheckReturned(t) ==
    /\ pc[t] = "returned"
    /\ result[t].tag = "Ok"
    /\ accepted' = [accepted EXCEPT ![t] =
                        is_valid_cuid(result[t].id, MIN_LENGTH, MAX_LENGTH)]
    /\ pc' = [pc EXCEPT ![t] = "validated"]
    /\ UNCHANGED <<COUNTER, length, locals, result, calls, entry, fetched,
                   past_clock, prior_calls, increments, draws, probe>>

Step(t, Seeds, Millis) ==
    \/ DrawLetter(t, Seeds)
    \/ ReadClock(t, Millis)
    \/ FetchAdd(t)
    \/ DrawSalt(t, Seeds)
    \/ DrawFingerprint(t, Seeds)
    \/ Assemble(t)
    \/ CheckReturned(t)

\* concurrent callers
Next ==
    \E t \in Threads :
        \/ \E len \in LengthArgs : GenerateCuid(t, len, MaxCalls)
        \/ Generate(t, MaxCalls)
        \/ Step(t, SameSeed, SameMillisecond)

Spec == Init /\ [][Next]_vars

\* one caller, every length argument 0..MaxLengthArg
NextSeq ==
    \/ \E len \in 0..MaxLengthArg : GenerateCuid(MainThread, len, MaxSeqCalls)
    \/ Generate(MainThread, MaxSeqCalls)
    \/ Step(MainThread, 0..MaxSeed, 0..MaxMillis)

SpecSeq == Init /\ [][NextSeq]_vars

\* a process that has run long enough to stand two increments before the
\* largest u64, beside the freshly started one
NearWrap == [i \in 1..(U64Limbs + 1) |->
                IF i = 1 THEN LimbBase - 2
                ELSE IF i <= U64Limbs THEN LimbBase - 1 ELSE 0]

InitLong ==
    /\ prior_calls \in {ZeroLimbs(U64Limbs + 1), NearWrap}
    /\ COUNTER = SubSeq(prior_calls, 1, U64Limbs)
    /\ probe = NoProbe
    /\ NoCalls

SpecLong == InitLong /\ [][Next]_vars

\* direct calls of the validator on arbitrary strings and limits
Ids == UNION {[1..n -> CharSamples] : n \in 0..MaxIdLen}

InitValid ==
    /\ COUNTER = ZeroLimbs(U64Limbs)
    /\ prior_calls = ZeroLimbs(U64Limbs + 1)
    /\ NoCalls
    /\ \E id \in Ids, min_length \in 0..MaxLimit, max_length \in 0..MaxLimit :
          probe = [called |-> FALSE, id |-> id, min_length |-> min_length,
                   max_length |-> max_length, ret |-> FALSE]

IsValidCuid ==
    /\ ~probe.called
    /\ probe' = [probe EXCEPT !.called = TRUE,
                              !.ret = is_valid_cuid(probe.id, probe.min_length,
                                                    probe.max_length)]
    /\ UNCHANGED <<COUNTER, pc, length, locals, result, accepted, calls, entry,
                   fetched, past_clock, prior_calls, increments, draws>>

NextValid == IsValidCuid

SpecValid == InitValid /\ [][NextValid]_vars

\* ------------------------------------------------------------ claims
Finished(t) == pc[t] \in {"returned", "validated"}
Succeeded(t) == Finished(t) /\ result[t].tag = "Ok"
InFlight(t) ==
    pc[t] \in {"random_letter", "timestamp", "fetch_add", "salt", "fingerprint", "hash"}
LowercaseLetters == 97..122
Digits == 48..57

\* C1: no two generate_cuid calls, however their steps interleave, are
\* handed the same counter value by fetch_add: the values returned are
\* pairwise different, and so are the counter_value strings of two calls
\* in flight.
C1_DistinctCounterValues ==
    /\ \A i, j \in 1..Len(fetched) : i # j => fetched[i] # fetched[j]
    /\ \A t, u \in Threads :
          t # u /\ counter_value[t] # <<>> /\ counter_value[u] # <<>>
              => counter_value[t] # counter_value[u]

C1_Witness ==
    /\ pc["t1"] = "salt" /\ pc["t2"] = "salt"
    /\ calls["t1"] = 2
    /\ Len(fetched) = 3

\* C2: a generate_cuid call with a length below 2 or above 32 returns
\* InvalidLength(length, 2, 32) in the step that makes the call, and that
\* step leaves the counter as it was.
C2_RangeRejection ==
    [][\A t \in Threads :
          calls'[t] = calls[t] + 1 /\ (length'[t] < 2 \/ length'[t] > 32)
              => /\ pc'[t] = "returned"
                 /\ result'[t] = [tag |-> "InvalidLength", len |-> length'[t],
                                  min |-> 2, max |-> 32]
                 /\ COUNTER' = COUNTER]_vars

C2_Witness ==
    /\ pc[MainThread] = "returned"
    /\ length[MainThread] = 33
    /\ result[MainThread].tag = "InvalidLength"
    /\ ~IsZero(COUNTER)

\* C3: a successful generate_cuid(length) returns exactly `length`
\* characters: the drawn letter, then characters 1..length-1 (counted from
\* 0) of the hexadecimal digest of the hash input; generate() returns 24.
C3_ExactLength ==
    [][\A t \in Threads :
          pc[t] = "hash" /\ result'[t].tag = "Ok"
              => LET id == result'[t].id
                     digest == hex_encode(Sha3_512(HashInput(t)))
                 IN  /\ Len(id) = length[t]
                     /\ str_len(id) = length[t]
                     /\ id[1] = first_letter[t]
                     /\ \A i \in 2..length[t] : id[i] = digest[i]
                     /\ entry[t] = "generate" => Len(id) = 24]_vars

C3_Witness ==
    /\ Succeeded(MainThread)
    /\ length[MainThread] = 2
    /\ Len(result[MainThread].id) = 2

\* C4: every returned identifier starts with an ASCII lowercase letter and
\* holds only ASCII lowercase letters and digits.
C4_Format ==
    \A t \in Threads :
        Succeeded(t)
            => /\ result[t].id # <<>>
               /\ result[t].id[1] \in LowercaseLetters
               /\ \A i \in 1..Len(result[t].id) :
                     result[t].id[i] \in LowercaseLetters \union Digits

C4_Witness ==
    /\ Succeeded(MainThread)
    /\ entry[MainThread] = "generate"
    /\ \E i, j \in 2..Len(result[MainThread].id) :
          /\ result[MainThread].id[i] \in Digits
          /\ result[MainThread].id[j] \in LowercaseLetters

\* C5: the identifier a successful generate_cuid(length) returns is
\* accepted by is_valid_cuid(id, MIN_LENGTH, MAX_LENGTH), for every valid
\* length.
C5_ValidatorAgrees ==
    \A t \in Threads :
        /\ Succeeded(t) => is_valid_cuid(result[t].id, MIN_LENGTH, MAX_LENGTH)
        /\ pc[t] = "validated" => accepted[t]

C5_Witness ==
    /\ pc[MainThread] = "validated"
    /\ accepted[MainThread]
    /\ length[MainThread] = 32

\* C6: is_valid_cuid(id, min_length, max_length) returns true exactly when
\* id is non-empty, its first character is an ASCII lowercase letter, every
\* character is an ASCII lowercase letter or digit, and the length of id lies
\* in [min_length, max_length]; otherwise it returns false.
C6_ValidatorRules ==
    probe.called =>
        /\ probe.ret \in BOOLEAN
        /\ probe.ret <=>
              /\ probe.id # <<>>
              /\ probe.id[1] \in LowercaseLetters
              /\ \A i \in 1..Len(probe.id) :
                    probe.id[i] \in LowercaseLetters \union Digits
              /\ probe.min_length <= Len(probe.id)
              /\ Len(probe.id) <= probe.max_length

C6_Witness ==
    /\ probe.called
    /\ probe.ret
    /\ Len(probe.id) = probe.max_length
    /\ probe.min_length = 2
    /\ \E i \in 1..Len(probe.id) : probe.id[i] \in Digits

\* C7: no generate_cuid call panics: a call in flight has a length within
\* [2, 32], so the compressor is asked for at most 32 of its 128 characters
\* and the slice [1..length] is in bounds; a finished call holds an
\* identifier or a typed error.
C7_NoPanic ==
    \A t \in Threads :
        /\ pc[t] # "panicked"
        /\ InFlight(t) =>
              /\ 2 <= length[t] /\ length[t] <= 32
              /\ length[t] <= Len(hex_encode(Sha3_512(HashInput(t))))
        /\ Finished(t) =>
              result[t].tag \in {"Ok", "InvalidLength", "SystemTimeError",
                                 "RandChaChaError"}

C7_Witness ==
    /\ pc[MainThread] = "returned"
    /\ result[MainThread].tag = "RandChaChaError"
    /\ draws[MainThread] = 3
    /\ length[MainThread] = 32

\* C8: a call that returns an identifier has incremented the counter exactly
\* once, each increment is a single step that adds one, and a call that
\* fails length validation has made no increment and no entropy draw.
C8_OneIncrement ==
    [][\A t \in Threads :
          /\ pc'[t] = "returned" /\ result'[t].tag = "Ok" => increments'[t] = 1
          /\ pc'[t] = "returned" /\ result'[t].tag = "InvalidLength"
                => increments'[t] = 0 /\ draws'[t] = 0
          /\ increments'[t] # increments[t] /\ increments'[t] # 0
                => /\ increments'[t] = increments[t] + 1
                   /\ COUNTER' = [COUNTER EXCEPT ![1] = @ + 1]
          /\ (\A u \in Threads : increments'[u] = increments[u] \/ increments'[u] = 0)
                => COUNTER' = COUNTER]_vars

C8_Witness ==
    /\ Succeeded("t1") /\ increments["t1"] = 1
    /\ pc["t2"] = "returned" /\ result["t2"].tag = "InvalidLength"
    /\ calls["t1"] = 2 /\ calls["t2"] = 2

\* C9 as stated: the counter is zero at process start and no step makes it
\* smaller.
C9_Original ==
    [][/\ IsZero(prior_calls) /\ fetched = <<>> => IsZero(COUNTER)
       /\ LimbLeq(COUNTER, COUNTER')]_vars

\* C9 amended: the counter is zero at process start, and no step makes it
\* smaller or resets it, except the increment at the largest 64-bit value,
\* which wraps it to zero.
C9_MonotoneUntilWrap ==
    [][/\ IsZero(prior_calls) /\ fetched = <<>> => IsZero(COUNTER)
       /\ \/ LimbLeq(COUNTER, COUNTER')
          \/ /\ COUNTER = MaxLimbs(U64Limbs)
             /\ IsZero(COUNTER')
             /\ \E t \in Threads : pc[t] = "fetch_add" /\ pc'[t] # "fetch_add"]_vars

C9_Witness ==
    /\ IsZero(COUNTER)
    /\ Len(fetched) = 2
    /\ fetched[2] = MaxLimbs(U64Limbs)

\* what the order of the steps within a call means for each caller
StepOrder ==
    \A t \in Threads :
        /\ pc[t] \in {"random_letter", "timestamp", "fetch_add"} => increments[t] = 0
        /\ pc[t] \in {"salt", "fingerprint", "hash"} => increments[t] = 1
        /\ Finished(t) =>
              /\ result[t].tag \in {"InvalidLength", "SystemTimeError"}
                    => increments[t] = 0
              /\ result[t].tag = "RandChaChaError" /\ draws[t] = 1 => increments[t] = 0
              /\ result[t].tag = "RandChaChaError" /\ draws[t] > 1 => increments[t] = 1

\* calls that got past the clock read since the process started
PastClock == AddSmall(prior_calls, past_clock)

\* calls standing between their clock read and their increment, the
\* statement that follows it
Pending == Cardinality({t \in Threads : pc[t] = "fetch_add"})

====
